---- MODULE Spec2Model ----
(***************************************************************************)
(* Frame-window and buffer-lifecycle orchestration of the BM3D CPU filter  *)
(* (cpu_source/source.cpp): BM3DInit, the two activations of BM3DGetFrame, *)
(* the per-thread scratch pool d->buffer, and BM3DFree.                    *)
(*                                                                         *)
(* A worker is a host thread.  The compute activation of BM3DGetFrame is   *)
(* split at the points where it touches state other threads can see (the  *)
(* unordered_map d->buffer) and at the kernel call; everything between two *)
(* such points is one step.                                                *)
(***************************************************************************)
EXTENDS Integers, Sequences, FiniteSets, TLC

\* ---------------------------------------------------------------- bounds
MaxRadius == 2
MaxFrames == 2
MaxWorkers == 2
MaxRequests == 2
MaxBlocks == 3

\* ------------------------------------------------------------- constants
NULLPTR == 0

\* the limits of int, the type of radius, height and the per-plane parameters
INT_MAX == 2147483647
INT_MIN == -INT_MAX - 1

Workers == 1..MaxWorkers
Planes == 0..2

\* std::max, std::min, std::clamp as <algorithm> defines them
Max(a, b) == IF a < b THEN b ELSE a
Min(a, b) == IF b < a THEN b ELSE a
Clamp(v, lo, hi) == IF v < lo THEN lo ELSE IF hi < v THEN hi ELSE v

\* ------------------------------------------------------- arithmetic on int
\* x + y leaves the range of int
AddOverflows(x, y) ==
    \/ x >= 0 /\ y >= 0 /\ y > INT_MAX - x
    \/ x < 0 /\ y < 0 /\ y < INT_MIN - x

\* x + y as a two's complement machine adds: modulo 2^32
AddInt(x, y) ==
    IF x >= 0 /\ y >= 0 /\ y > INT_MAX - x THEN (x - INT_MAX - 1) + (y - INT_MAX - 1)
    ELSE IF x < 0 /\ y < 0 /\ y < INT_MIN - x THEN (x + INT_MAX + 1) + (y + INT_MAX + 1)
    ELSE x + y

\* x * y for y >= 0, by doubling: the product modulo 2^32
RECURSIVE MulInt(_, _)
MulInt(x, y) ==
    IF y = 0 THEN 0
    ELSE LET half == MulInt(x, y \div 2)
             twice == AddInt(half, half)
         IN  IF y % 2 = 1 THEN AddInt(twice, x) ELSE twice

\* the mathematical product x * y, for y >= 0, lies outside the range of int
MulOverflows(x, y) ==
    /\ y # 0
    /\ \/ x > INT_MAX \div y
       \/ x < INT_MIN \div y + (IF INT_MIN % y = 0 THEN 0 ELSE 1)

\* floor(x * num / den) for x >= 0, without leaving the range of int
MulDiv(x, num, den) == (x \div den) * num + ((x % den) * num) \div den

\* ------------------------------------------------------- formats and clips
stInteger == "stInteger"
stFloat == "stFloat"

pfYUV444PS ==
    [id |-> "YUV444PS", sampleType |-> stFloat, bitsPerSample |-> 32,
     numPlanes |-> 3, subSamplingW |-> 0, subSamplingH |-> 0]
pfYUV420PS ==
    [id |-> "YUV420PS", sampleType |-> stFloat, bitsPerSample |-> 32,
     numPlanes |-> 3, subSamplingW |-> 1, subSamplingH |-> 1]
pfGrayS ==
    [id |-> "GRAYS", sampleType |-> stFloat, bitsPerSample |-> 32,
     numPlanes |-> 1, subSamplingW |-> 0, subSamplingH |-> 0]
pfYUV420P8 ==
    [id |-> "YUV420P8", sampleType |-> stInteger, bitsPerSample |-> 8,
     numPlanes |-> 3, subSamplingW |-> 1, subSamplingH |-> 1]
pfYUV444PH ==
    [id |-> "YUV444PH", sampleType |-> stFloat, bitsPerSample |-> 16,
     numPlanes |-> 3, subSamplingW |-> 0, subSamplingH |-> 0]

\* the null VSFormat pointer of a clip whose format varies
NullFormat ==
    [id |-> "nullptr", sampleType |-> "", bitsPerSample |-> 0,
     numPlanes |-> 0, subSamplingW |-> 0, subSamplingH |-> 0]

Formats == {pfYUV444PS, pfYUV420PS, pfGrayS}

\* the VSVideoInfo of the clips the filter is built on (constant format, 32 bit float)
Clips ==
    { [format |-> f, width |-> 16, height |-> 4, numFrames |-> nf] :
        f \in Formats, nf \in 1..MaxFrames }

Shift(v, s) == IF s = 0 THEN v ELSE v \div 2

\* vsapi->getFrameWidth / getFrameHeight / getStride of a frame of the given
\* format and luma size; the stride is in bytes, rows are 32-byte aligned
FrameWidth(fmt, width, plane) == IF plane = 0 THEN width ELSE Shift(width, fmt.subSamplingW)
FrameHeight(fmt, height, plane) == IF plane = 0 THEN height ELSE Shift(height, fmt.subSamplingH)
FrameStride(fmt, width, plane) == ((FrameWidth(fmt, width, plane) * 4 + 31) \div 32) * 32

\* num_planes(chroma) of bm3d_impl.hpp: the size of a plane-group
num_planes(chroma) == IF chroma THEN 3 ELSE 1

\* ------------------------------------------------------------ FilterConfig
\* A float is modelled by the number of units of 10^-8 it holds, rounded down.
UnitsPerOne == 100000000

\* std::numeric_limits<float>::epsilon() is 1.1920929e-7: a whole number of
\* units is below it exactly when it is below 12
EpsilonUnits == 12

\* sigma *= (3.f / 4.f) / 255.f * 64.f * (ref_node == nullptr ? 2.7f : 1.0f):
\* the factor is 216/425 without a reference and 16/85 with one
ScaleSigma(sigma, has_ref) ==
    IF has_ref THEN MulDiv(sigma, 16, 85) ELSE MulDiv(sigma, 216, 425)

\* process[i] = !(sigma < epsilon)
Process(sigma) == ~(sigma < EpsilonUnits)

\* The BM3DData instances BM3DCreate hands to createFilter: radius >= 0,
\* chroma only on YUV444PS, process[i] derived from sigma[i], ref_node either
\* null (has_ref = FALSE) or a clip of the same format, size and length.  The
\* planes that are filtered carry the scaled sigma of 3, 4 and 5; block_step
\* and bm_range differ from plane to plane, ps_num and ps_range are read from
\* a single value and are the same for the three planes.
ConfigSigma(process, has_ref) ==
    [p \in Planes |-> IF process[p] THEN ScaleSigma((3 + p) * UnitsPerOne, has_ref) ELSE 0]

ValidConfigs ==
    { [radius |-> c.radius, chroma |-> c.chroma, has_ref |-> c.has_ref,
       process |-> c.process, vi |-> c.vi,
       sigma |-> ConfigSigma(c.process, c.has_ref),
       block_step |-> [p \in Planes |-> 8 - 2 * p],
       bm_range |-> [p \in Planes |-> 9 - p],
       ps_num |-> [p \in Planes |-> 2],
       ps_range |-> [p \in Planes |-> 4]] :
        c \in { c \in [ radius : 0..MaxRadius, chroma : BOOLEAN, has_ref : BOOLEAN,
                        process : [Planes -> BOOLEAN], vi : Clips ] :
                  c.chroma => c.vi.format.id = pfYUV444PS.id } }

VARIABLES
    in,         \* the arguments of the BM3D call: the clips and the VSMap in
    out,        \* the VSMap out: the errors set, and the filters created
    d,          \* the BM3DData of the filter instance
    life,       \* "called", "created" or "failed" (after BM3DCreate), "running"
                \* (after BM3DInit), "freed"
    outVi,      \* the VSVideoInfo declared with setVideoInfo
    pool,       \* d->buffer: thread id -> float * (NULLPTR for a null value)
    heap,       \* vs_aligned_malloc'ed blocks, by id: size, zeroed prefix, frees
    ctx,        \* per worker: the activation of BM3DGetFrame it is running
    nodeFreed,  \* freeNode calls on d->node and on d->ref_node
    nreq,       \* frame requests the host has issued
    crashed     \* the process took a fault (write through a null pointer)

vars == <<in, out, d, life, outVi, pool, heap, ctx, nodeFreed, nreq, crashed>>

NoFrame ==
    [allocated |-> FALSE, format |-> "", width |-> 0, height |-> 0,
     planes |-> [p \in Planes |-> [from_src |-> FALSE, zeroed |-> 0, written |-> FALSE]],
     has_props |-> FALSE, BM3D_V_radius |-> 0, BM3D_V_process |-> <<>>]

\* no kernel call made yet
NoCall ==
    [chroma |-> FALSE, plane |-> 0, dstps |-> {}, stride |-> 0, width |-> 0, height |-> 0,
     sigma |-> <<>>, block_step |-> 0, bm_range |-> 0, ps_num |-> 0, ps_range |-> 0,
     srcps |-> <<>>, radius |-> 0, temporal |-> FALSE, final |-> FALSE, ref_null |-> TRUE,
     refps |-> <<>>, buffer |-> NULLPTR]

IdleCtx ==
    [pc |-> "idle", n |-> 0, requested |-> <<>>, requested_ref |-> <<>>,
     src_frames |-> <<>>, ref_frames |-> <<>>, dst_frame |-> NoFrame,
     plane |-> 0, found |-> FALSE, newbuf |-> NULLPTR, buffer |-> NULLPTR,
     race |-> {}, called |-> FALSE, call |-> NoCall, calls |-> <<>>, returned |-> FALSE]

\* the VSMap in is not read again once BM3DCreate has returned
NoArgs == [consumed |-> TRUE]

NoVideoInfo ==
    [set |-> FALSE, format |-> "", width |-> 0, height |-> 0, numFrames |-> 0,
     overflowed |-> FALSE]

Init ==
    /\ in = NoArgs
    /\ out = [error |-> <<>>, filters |-> 1]
    /\ d \in ValidConfigs
    /\ life = "created"
    /\ outVi = NoVideoInfo
    /\ pool = <<>>
    /\ heap = <<>>
    /\ ctx = [w \in Workers |-> IdleCtx]
    /\ nodeFreed = [node |-> 0, ref_node |-> 0]
    /\ nreq = 0
    /\ crashed = FALSE

\* Frames are produced between BM3DInit and BM3DFree.  A fault, or a kernel
\* failure that has left BM3DGetFrame as an exception into the host's worker
\* thread, ends the run: what the host does with it is not part of the filter.
Running ==
    /\ life = "running"
    /\ ~crashed
    /\ \A w \in Workers : ctx[w].pc # "thrown"

\* ---------------------------------------------------------------- BM3DCreate
\* A double of the VSMap: units of the float grid plus a residue a float cannot
\* hold; static_cast<float> keeps the units (a value of residue only becomes a
\* zero of its sign).
static_cast_float(x) == x.units

\* An int64 of the VSMap is hi * 2^31 + lo with 0 <= lo <= INT_MAX.
\* int64ToIntS saturates it to the range of int.
int64ToIntS(x) ==
    IF x.hi >= 1 THEN INT_MAX
    ELSE IF x.hi <= -2 THEN INT_MIN
    ELSE IF x.hi = 0 THEN x.lo
    ELSE x.lo - INT_MAX - 1

\* propGetFloat / propGetInt / propGetNode at index i: error when the key
\* holds no element i
PropError(values, i) == i >= Len(values)

isConstantFormat(vi) == vi.format # NullFormat /\ vi.width > 0 /\ vi.height > 0

Failed(message, ref_acquired) ==
    [kind |-> "error", message |-> message, ref_acquired |-> ref_acquired]

\* the loop over sigma: d->sigma[i] and d->process[i] for i = 0, 1, 2
RECURSIVE SigmaLoop(_, _, _, _)
SigmaLoop(values, has_ref, i, acc) ==
    IF i = 3 THEN acc
    ELSE LET error == PropError(values, i)
             read == IF error THEN 0 ELSE static_cast_float(values[i + 1])
             sigma == IF error THEN (IF i = 0 THEN 3 * UnitsPerOne ELSE acc.sigma[i - 1])
                      ELSE read
             scaled == ScaleSigma(sigma, has_ref)
         IN  IF ~error /\ sigma < 0
             THEN [acc EXCEPT !.error = "\"sigma\" must be non-negative"]
             ELSE SigmaLoop(values, has_ref, i + 1,
                            [acc EXCEPT !.sigma = (i :> scaled) @@ @,
                                        !.process = (i :> Process(scaled)) @@ @])

\* the loops over block_step, bm_range, ps_num and ps_range: an element that
\* is missing takes the default (i = 0) or the element before it; one that is
\* given must be positive and at most highest
RECURSIVE IntLoop(_, _, _, _, _, _)
IntLoop(values, default, highest, message, i, acc) ==
    IF i = 3 THEN acc
    ELSE LET error == PropError(values, i)
             value == IF error THEN (IF i = 0 THEN default ELSE acc.value[i - 1])
                      ELSE int64ToIntS(values[i + 1])
         IN  IF ~error /\ (value <= 0 \/ value > highest)
             THEN [acc EXCEPT !.error = message]
             ELSE IntLoop(values, default, highest, message, i + 1,
                          [acc EXCEPT !.value = (i :> value) @@ @])

NoValues == [error |-> "", value |-> <<>>]

\* ref_vi->format->id of a reference whose format pointer is null is a read
\* through a null pointer: the process faults, or the comparison gives either
\* answer.  Of a reference with a format it reads the id.
DerefOutcomes == {"reads", "faults", "differs", "equal"}

DerefAllowed(a, deref) ==
    IF a.ref # <<>> /\ a.ref[1].format = NullFormat THEN deref # "reads" ELSE deref = "reads"

\* BM3DCreate up to its return: the error it reports, or the BM3DData it
\* passes to createFilter
CreateOutcome(a, deref) ==
    LET vi == a.clip
        has_ref == a.ref # <<>>
        ref_vi == a.ref[1]
        format_differs ==
            IF deref = "reads" THEN ref_vi.format.id # vi.format.id ELSE deref = "differs"
        sigmas == SigmaLoop(a.sigma, has_ref, 0, [error |-> "", sigma |-> <<>>, process |-> <<>>])
        block_step == IntLoop(a.block_step, 8, 8, "\"block_step\" must be in range [1, 8]", 0, NoValues)
        bm_range == IntLoop(a.bm_range, 9, INT_MAX, "\"bm_range\" must be positive", 0, NoValues)
        radius == IF PropError(a.radius, 0) THEN 0 ELSE int64ToIntS(a.radius[1])
        ps_num == IntLoop(a.ps_num, 2, INT_MAX, "\"ps_num\" must be positive", 0, NoValues)
        ps_range == IntLoop(a.ps_range, 4, INT_MAX, "\"ps_range\" must be positive", 0, NoValues)
        chroma == IF PropError(a.chroma, 0) THEN FALSE ELSE int64ToIntS(a.chroma[1]) # 0
    IN  IF \/ ~isConstantFormat(vi)
           \/ vi.format.sampleType = stInteger
           \/ vi.format.sampleType = stFloat /\ vi.format.bitsPerSample # 32
        THEN Failed("only constant format 32 bit float input supported", FALSE)
        ELSE IF has_ref /\ deref = "faults"
        THEN [kind |-> "fault"]
        ELSE IF has_ref /\ format_differs
        THEN Failed("\"ref\" must be of the same format as \"clip\"", has_ref)
        ELSE IF has_ref /\ (ref_vi.width # vi.width \/ ref_vi.height # vi.height)
        THEN Failed("\"ref\" must be of the same dimensions as \"clip\"", has_ref)
        ELSE IF has_ref /\ ref_vi.numFrames # vi.numFrames
        THEN Failed("\"ref\" must be of the same number of frames as \"clip\"", has_ref)
        ELSE IF sigmas.error # "" THEN Failed(sigmas.error, has_ref)
        ELSE IF block_step.error # "" THEN Failed(block_step.error, has_ref)
        ELSE IF bm_range.error # "" THEN Failed(bm_range.error, has_ref)
        ELSE IF ~PropError(a.radius, 0) /\ radius < 0
        THEN Failed("\"radius\" must be positive", has_ref)
        ELSE IF ps_num.error # "" THEN Failed(ps_num.error, has_ref)
        ELSE IF ps_range.error # "" THEN Failed(ps_range.error, has_ref)
        ELSE IF chroma /\ vi.format.id # pfYUV444PS.id
        THEN Failed("clip format must be YUV444 when \"chroma\" is true", has_ref)
        ELSE [kind |-> "created",
              d |-> [radius |-> radius, chroma |-> chroma, has_ref |-> has_ref,
                     process |-> sigmas.process, vi |-> vi, sigma |-> sigmas.sigma,
                     block_step |-> block_step.value, bm_range |-> bm_range.value,
                     ps_num |-> ps_num.value, ps_range |-> ps_range.value]]

\* set_error: setError with the prefixed message, then freeNode on d->node and
\* on d->ref_node (a null ref_node is accepted and releases nothing)
SetError(o, message) == [o EXCEPT !.error = Append(@, "BM3D: " \o message)]

BM3DCreate(deref) ==
    /\ life = "called"
    /\ DerefAllowed(in, deref)
    /\ LET outcome == CreateOutcome(in, deref)
       IN  IF outcome.kind = "fault"
           THEN /\ crashed' = TRUE
                /\ life' = "failed"
                /\ UNCHANGED <<out, d, nodeFreed>>
           ELSE IF outcome.kind = "error"
           THEN /\ out' = SetError(out, outcome.message)
                /\ nodeFreed' = [node |-> nodeFreed.node + 1,
                                 ref_node |-> nodeFreed.ref_node
                                                 + (IF outcome.ref_acquired THEN 1 ELSE 0)]
                /\ life' = "failed"
                /\ UNCHANGED <<d, crashed>>
           ELSE /\ d' = outcome.d
                /\ out' = [out EXCEPT !.filters = @ + 1]
                /\ life' = "created"
                /\ UNCHANGED <<nodeFreed, crashed>>
    /\ UNCHANGED <<in, outVi, pool, heap, ctx, nreq>>

\* ------------------------------------------------------------------ BM3DInit
\* mutant: the stacked height without the factor two of the two layers
DeclaredHeightOneLayer(c) ==
    IF c.radius # 0 THEN c.vi.height * (2 * c.radius + 1) ELSE c.vi.height

\* vi.height *= 2 * (2 * d->radius + 1), in int
DeclaredHeight(c) ==
    IF c.radius # 0
    THEN MulInt(MulInt(AddInt(MulInt(c.radius, 2), 1), 2), c.vi.height)
    ELSE c.vi.height

\* one of the operations of that expression leaves the range of int
DeclaredHeightOverflows(c) ==
    /\ c.radius # 0
    /\ \/ MulOverflows(c.radius, 2)
       \/ AddOverflows(MulInt(c.radius, 2), 1)
       \/ MulOverflows(AddInt(MulInt(c.radius, 2), 1), 2)
       \/ MulOverflows(MulInt(AddInt(MulInt(c.radius, 2), 1), 2), c.vi.height)

\* Signed overflow is undefined: the build either wraps (and declares the
\* wrapped height) or traps.
BM3DInit(trap) ==
    /\ life = "created"
    /\ ~crashed
    /\ trap => DeclaredHeightOverflows(d)
    /\ life' = "running"
    /\ IF trap
       THEN crashed' = TRUE /\ UNCHANGED outVi
       ELSE /\ outVi' = [set |-> TRUE, format |-> d.vi.format.id, width |-> d.vi.width,
                         height |-> DeclaredHeight(d), numFrames |-> d.vi.numFrames,
                         overflowed |-> DeclaredHeightOverflows(d)]
            /\ UNCHANGED crashed
    /\ UNCHANGED <<in, out, d, pool, heap, ctx, nodeFreed, nreq>>

\* --------------------------------------------------- BM3DGetFrame, arInitial
RECURSIVE RequestLoop(_, _, _)
RequestLoop(i, end_frame, reqs) ==
    IF i <= end_frame THEN RequestLoop(i + 1, end_frame, Append(reqs, i)) ELSE reqs

\* mutant: the first announced index is not clamped at the start of the clip
RequestedUnclamped(c, n) ==
    LET start_frame == n - c.radius
        end_frame == Min(n + c.radius, c.vi.numFrames - 1)
    IN  RequestLoop(start_frame, end_frame, <<>>)

Requested(c, n) ==
    LET start_frame == Max(n - c.radius, 0)
        end_frame == Min(n + c.radius, c.vi.numFrames - 1)
    IN  RequestLoop(start_frame, end_frame, <<>>)

\* mutant: the arInitial activation already fetches the window
OnInitialFetching(c, n) ==
    [IdleCtx EXCEPT !.pc = "announced", !.n = n,
                    !.requested = Requested(c, n),
                    !.requested_ref = IF c.has_ref THEN Requested(c, n) ELSE <<>>,
                    !.src_frames = [k \in 1..Len(Requested(c, n)) |->
                                       [idx |-> Requested(c, n)[k], freed |-> 0]]]

\* what the arInitial activation leaves behind: the requests, and nothing else
OnInitial(c, n) ==
    [IdleCtx EXCEPT !.pc = "announced", !.n = n,
                    !.requested = Requested(c, n),
                    !.requested_ref = IF c.has_ref THEN Requested(c, n) ELSE <<>>]

\* the host asks a worker for frame n: the activation with reason arInitial.
\* The host issues at most limit requests.
AnnounceUpTo(w, n, limit) ==
    /\ Running
    /\ ctx[w].pc \in {"idle", "done"}
    /\ nreq < limit
    /\ n \in 0..(d.vi.numFrames - 1)
    /\ nreq' = nreq + 1
    /\ ctx' = [ctx EXCEPT ![w] = OnInitial(d, n)]
    /\ UNCHANGED <<in, out, d, life, outVi, pool, heap, nodeFreed, crashed>>

\* an activation with a reason other than arInitial and arAllFramesReady
\* (arFrameReady, arError) takes neither branch and returns nullptr
ActivationReasons == {"arFrameReady", "arError"}

OtherActivation(w, reason) ==
    /\ Running
    /\ ctx[w].pc = "announced"
    /\ reason \in ActivationReasons
    /\ UNCHANGED vars

\* ------------------------------------------- BM3DGetFrame, arAllFramesReady
\* mutant: the window is clamped to numFrames instead of numFrames - 1
RECURSIVE WindowLoopPastEnd(_, _, _, _)
WindowLoopPastEnd(c, n, i, temp) ==
    IF i <= c.radius
    THEN WindowLoopPastEnd(c, n, i + 1,
                           Append(temp, [idx |-> Clamp(n + i, 0, c.vi.numFrames), freed |-> 0]))
    ELSE temp

RECURSIVE WindowLoop(_, _, _, _)
WindowLoop(c, n, i, temp) ==
    IF i <= c.radius
    THEN WindowLoop(c, n, i + 1,
                    Append(temp, [idx |-> Clamp(n + i, 0, c.vi.numFrames - 1), freed |-> 0]))
    ELSE temp

SrcFrames(c, n) == WindowLoop(c, n, -c.radius, <<>>)
RefFrames(c, n) == IF c.has_ref THEN WindowLoop(c, n, -c.radius, <<>>) ELSE <<>>

\* const int temporal_width = 2 * radius + 1
TemporalWidth(c) == AddInt(MulInt(c.radius, 2), 1)

\* newVideoFrame2 with the unprocessed planes taken from src_frame (radius = 0),
\* newVideoFrame with the stacked height (radius > 0); fresh planes are not
\* initialised
DstFrame(c) ==
    IF c.radius = 0
    THEN [NoFrame EXCEPT !.allocated = TRUE, !.format = c.vi.format.id,
                         !.width = c.vi.width, !.height = c.vi.height,
                         !.planes = [p \in Planes |->
                             [from_src |-> ~c.process[p], zeroed |-> 0, written |-> FALSE]]]
    ELSE [NoFrame EXCEPT !.allocated = TRUE, !.format = c.vi.format.id,
                         !.width = c.vi.width,
                         !.height = MulInt(TemporalWidth(c), MulInt(c.vi.height, 2))]

\* the per-plane loop: the next plane >= from with process[plane], else numPlanes
RECURSIVE NextPlane(_, _)
NextPlane(c, from) ==
    IF from < c.vi.format.numPlanes /\ ~c.process[from] THEN NextPlane(c, from + 1)
    ELSE Min(from, c.vi.format.numPlanes)

\* where the compute phase goes once the plane-group to filter is known
StepFor(c, plane) ==
    IF ~c.chroma /\ plane >= c.vi.format.numPlanes THEN "release"
    ELSE IF c.radius = 0 THEN "count" ELSE "memset"

Fetch(w) ==
    /\ Running
    /\ ctx[w].pc = "announced"
    /\ LET first == IF d.chroma THEN 0 ELSE NextPlane(d, 0)
       IN  ctx' = [ctx EXCEPT ![w] =
                     [@ EXCEPT !.src_frames = SrcFrames(d, ctx[w].n),
                               !.ref_frames = RefFrames(d, ctx[w].n),
                               !.dst_frame = DstFrame(d),
                               !.plane = first,
                               !.pc = StepFor(d, first)]]
    /\ UNCHANGED <<in, out, d, life, outVi, pool, heap, nodeFreed, nreq, crashed>>

\* ------------------------------------------------ the scratch pool, radius = 0
\* sizeof(float) * stride * height * 2 * num_planes(chroma), in floats; stride
\* and height are those of src_frame's plane (plane 0 in joint-chroma mode)
ScratchFloats(c, plane) ==
    (FrameStride(c.vi.format, c.vi.width, plane) \div 4)
        * FrameHeight(c.vi.format, c.vi.height, plane) * 2 * num_planes(c.chroma)

\* the workers whose d->buffer.emplace is in progress on another thread
Emplacing(w) == { v \in Workers \ {w} : ctx[v].pc = "in_emplace" }

\* d->buffer.count(thread_id) == 0.  With an emplace in progress on another
\* thread (nothing excludes it: a data race) the traversal may find the key or
\* miss it, whatever the map holds.
CountResult(w, seen) == IF Emplacing(w) = {} THEN w \in DOMAIN pool ELSE seen

PoolCount(w, seen) ==
    /\ Running
    /\ ctx[w].pc = "count"
    /\ LET found == CountResult(w, seen)
       IN  ctx' = [ctx EXCEPT ![w] =
                     [@ EXCEPT !.found = found,
                               !.pc = IF found THEN "lookup" ELSE "emplace"]]
    /\ UNCHANGED <<in, out, d, life, outVi, pool, heap, nodeFreed, nreq, crashed>>

\* vs_aligned_malloc, then d->buffer.emplace(thread_id, buffer) is entered; an
\* emplace in progress on another thread now overlaps this one
PoolEmplaceBegin(w) ==
    /\ Running
    /\ ctx[w].pc = "emplace"
    /\ Len(heap) < MaxBlocks
    /\ heap' = Append(heap, [size |-> ScratchFloats(d, ctx[w].plane), zeroed |-> 0, freed |-> 0])
    /\ ctx' = [v \in Workers |->
                 IF v = w
                 THEN [ctx[w] EXCEPT !.pc = "in_emplace", !.newbuf = Len(heap) + 1,
                                     !.race = Emplacing(w)]
                 ELSE IF ctx[v].pc = "in_emplace"
                 THEN [ctx[v] EXCEPT !.race = @ \cup {w}]
                 ELSE ctx[v]]
    /\ UNCHANGED <<in, out, d, life, outVi, pool, nodeFreed, nreq, crashed>>

\* emplace as std::unordered_map defines it: a key already present keeps its value
Emplaced(m, key, value) == IF key \in DOMAIN m THEN m ELSE (key :> value) @@ m

Erased(m, key) == [k \in DOMAIN m \ {key} |-> m[k]]

\* The outcomes of the insertion.  Alone it inserts.  Overlapping another
\* thread's emplace (a data race on the bucket list) one of the two nodes may
\* be unlinked: this thread's, or the other thread's.
EmplaceOutcomes(w) ==
    {Emplaced(pool, w, ctx[w].newbuf)}
        \cup (IF ctx[w].race = {} THEN {}
              ELSE {pool} \cup { Erased(Emplaced(pool, w, ctx[w].newbuf), r) : r \in ctx[w].race })

PoolEmplaceEnd(w) ==
    /\ Running
    /\ ctx[w].pc = "in_emplace"
    /\ pool' \in EmplaceOutcomes(w)
    /\ ctx' = [ctx EXCEPT ![w] = [@ EXCEPT !.pc = "lookup", !.race = {}]]
    /\ UNCHANGED <<in, out, d, life, outVi, heap, nodeFreed, nreq, crashed>>

\* return d->buffer[thread_id]: operator[] returns the mapped value; for a key
\* it does not find it inserts a value-initialised (null) pointer.  With an
\* emplace in progress on another thread it may miss a key that is there.
PoolLookup(w, miss) ==
    /\ Running
    /\ ctx[w].pc = "lookup"
    /\ miss => Emplacing(w) # {}
    /\ LET hit == w \in DOMAIN pool /\ ~miss
       IN  /\ pool' = IF hit THEN pool ELSE (w :> NULLPTR) @@ Erased(pool, w)
           /\ ctx' = [ctx EXCEPT ![w] =
                        [@ EXCEPT !.buffer = IF hit THEN pool[w] ELSE NULLPTR,
                                  !.pc = "memset"]]
    /\ UNCHANGED <<in, out, d, life, outVi, heap, nodeFreed, nreq, crashed>>

\* ------------------------------------------------------------- zero-filling
\* the planes of dst_frame one kernel call is handed (dstps)
CallPlanes(c, plane) == IF c.chroma THEN Planes ELSE {plane}

\* mutant: one layer per window frame is zero-filled instead of two
DstZeroFloatsOneLayer(c, plane) ==
    (FrameStride(c.vi.format, c.vi.width, plane) \div 4)
        * FrameHeight(c.vi.format, c.vi.height, plane) * (2 * c.radius + 1)

\* sizeof(float) * stride * height * 2 * temporal_width, in floats
DstZeroFloats(c, plane) ==
    (FrameStride(c.vi.format, c.vi.width, plane) \div 4)
        * FrameHeight(c.vi.format, c.vi.height, plane) * 2 * TemporalWidth(c)

\* mutant: the byte count of the memset lacks the factor two
ZeroedScratchHalf(h, b, floats) == [h EXCEPT ![b].zeroed = floats \div 2]

\* memset(buffer, 0, ...) on the scratch block
ZeroedScratch(h, b, floats) == [h EXCEPT ![b].zeroed = floats]

\* memset(dstp, 0, ...) for every dstp of dstps
ZeroedDst(c, frame, plane) ==
    [frame EXCEPT !.planes = [p \in Planes |->
        IF p \in CallPlanes(c, plane)
        THEN [frame.planes[p] EXCEPT !.zeroed = DstZeroFloats(c, plane)]
        ELSE frame.planes[p]]]

Memset(w) ==
    /\ Running
    /\ ctx[w].pc = "memset"
    /\ IF d.radius = 0
       THEN IF ctx[w].buffer = NULLPTR
            THEN \* memset through the null pointer operator[] returned
                 /\ crashed' = TRUE
                 /\ ctx' = [ctx EXCEPT ![w] = [@ EXCEPT !.pc = "fault"]]
                 /\ UNCHANGED heap
            ELSE /\ heap' = ZeroedScratch(heap, ctx[w].buffer, ScratchFloats(d, ctx[w].plane))
                 /\ ctx' = [ctx EXCEPT ![w] = [@ EXCEPT !.pc = "call"]]
                 /\ UNCHANGED crashed
       ELSE /\ ctx' = [ctx EXCEPT ![w] =
                         [@ EXCEPT !.dst_frame = ZeroedDst(d, @, ctx[w].plane), !.pc = "call"]]
            /\ UNCHANGED <<heap, crashed>>
    /\ UNCHANGED <<in, out, d, life, outVi, pool, nodeFreed, nreq>>

\* ---------------------------------------------------------- the kernel call
Indices(frames) == [k \in 1..Len(frames) |-> frames[k].idx]

\* mutant: the per-plane branch reads the parameters of plane 0 for every plane,
\* as the joint-chroma branch does
KernelParamsOfPlane0(c, plane) ==
    [stride |-> FrameStride(c.vi.format, c.vi.width, plane) \div 4,
     width |-> FrameWidth(c.vi.format, c.vi.width, plane),
     height |-> FrameHeight(c.vi.format, c.vi.height, plane),
     sigma |-> IF c.chroma THEN <<c.sigma[0], c.sigma[1], c.sigma[2]>> ELSE <<c.sigma[0]>>,
     block_step |-> c.block_step[0], bm_range |-> c.bm_range[0],
     ps_num |-> c.ps_num[0], ps_range |-> c.ps_range[0]]

\* width, height and stride of src_frame's plane and the filter parameters of
\* one call: in joint-chroma mode (plane = 0) the three sigmas and the other
\* parameters of plane 0, in per-plane mode those of the plane
KernelParams(c, plane) ==
    [stride |-> FrameStride(c.vi.format, c.vi.width, plane) \div 4,
     width |-> FrameWidth(c.vi.format, c.vi.width, plane),
     height |-> FrameHeight(c.vi.format, c.vi.height, plane),
     sigma |-> IF c.chroma THEN <<c.sigma[0], c.sigma[1], c.sigma[2]>> ELSE <<c.sigma[plane]>>,
     block_step |-> IF c.chroma THEN c.block_step[0] ELSE c.block_step[plane],
     bm_range |-> IF c.chroma THEN c.bm_range[0] ELSE c.bm_range[plane],
     ps_num |-> IF c.chroma THEN c.ps_num[0] ELSE c.ps_num[plane],
     ps_range |-> IF c.chroma THEN c.ps_range[0] ELSE c.ps_range[plane]]

\* mutant: the reference-guided spatial branch passes nullptr for the scratch
\* buffer, as the temporal branch below it does
KernelCallNullScratch(c, cx) ==
    LET common == KernelParams(c, cx.plane) @@
                  [chroma |-> c.chroma, plane |-> cx.plane,
                   dstps |-> IF c.chroma THEN Planes ELSE {cx.plane},
                   srcps |-> [k \in 1..Len(cx.src_frames) |-> cx.src_frames[k].idx],
                   radius |-> c.radius]
    IN  IF ~c.has_ref
        THEN IF c.radius = 0
             THEN common @@ [temporal |-> FALSE, final |-> FALSE, ref_null |-> TRUE,
                             refps |-> <<>>, buffer |-> cx.buffer]
             ELSE common @@ [temporal |-> TRUE, final |-> FALSE, ref_null |-> TRUE,
                             refps |-> <<>>, buffer |-> NULLPTR]
        ELSE IF c.radius = 0
             THEN common @@ [temporal |-> FALSE, final |-> TRUE, ref_null |-> FALSE,
                             refps |-> [k \in 1..Len(cx.ref_frames) |-> cx.ref_frames[k].idx],
                             buffer |-> NULLPTR]
             ELSE common @@ [temporal |-> TRUE, final |-> TRUE, ref_null |-> FALSE,
                             refps |-> [k \in 1..Len(cx.ref_frames) |-> cx.ref_frames[k].idx],
                             buffer |-> NULLPTR]

\* the bm3d<temporal, chroma, final_> instantiation the branches select and the
\* arguments they pass
KernelCall(c, cx) ==
    LET common == KernelParams(c, cx.plane) @@
                  [chroma |-> c.chroma, plane |-> cx.plane,
                   dstps |-> CallPlanes(c, cx.plane),
                   srcps |-> Indices(cx.src_frames), radius |-> c.radius]
    IN  IF ~c.has_ref
        THEN IF c.radius = 0
             THEN common @@ [temporal |-> FALSE, final |-> FALSE, ref_null |-> TRUE,
                             refps |-> <<>>, buffer |-> cx.buffer]
             ELSE common @@ [temporal |-> TRUE, final |-> FALSE, ref_null |-> TRUE,
                             refps |-> <<>>, buffer |-> NULLPTR]
        ELSE IF c.radius = 0
             THEN common @@ [temporal |-> FALSE, final |-> TRUE, ref_null |-> FALSE,
                             refps |-> Indices(cx.ref_frames), buffer |-> cx.buffer]
             ELSE common @@ [temporal |-> TRUE, final |-> TRUE, ref_null |-> FALSE,
                             refps |-> Indices(cx.ref_frames), buffer |-> NULLPTR]

\* what the kernel leaves behind: the planes it was handed are written, the
\* scratch block it was handed holds its intermediate sums
KernelWritten(frame, call) ==
    [frame EXCEPT !.planes = [p \in Planes |->
        IF p \in call.dstps THEN [frame.planes[p] EXCEPT !.written = TRUE]
        ELSE frame.planes[p]]]

KernelScratch(h, call) ==
    IF call.buffer = NULLPTR THEN h ELSE [h EXCEPT ![call.buffer].zeroed = 0]

\* what one call was asked to filter: the plane and the parameters it was given
CallOf(call) ==
    [plane |-> call.plane, dstps |-> call.dstps, stride |-> call.stride,
     width |-> call.width, height |-> call.height, sigma |-> call.sigma,
     block_step |-> call.block_step, bm_range |-> call.bm_range,
     ps_num |-> call.ps_num, ps_range |-> call.ps_range]

\* the kernel either returns or fails with an exception
KernelOutcomes == {"returns", "throws"}

\* after a kernel call that returned: the next processed plane, or the release
AfterCall(c, plane) ==
    IF c.chroma THEN [plane |-> plane, pc |-> "release"]
    ELSE LET nxt == NextPlane(c, plane + 1)
         IN  [plane |-> nxt, pc |-> StepFor(c, nxt)]

\* a failure leaves BM3DGetFrame at once: nothing catches between the call and
\* the caller, so the statements after the call are not run
AfterThrow(c, plane) == [plane |-> plane, pc |-> "thrown"]

Kernel(w, outcome) ==
    /\ Running
    /\ ctx[w].pc = "call"
    /\ LET call == KernelCall(d, ctx[w])
           to == IF outcome = "throws" THEN AfterThrow(d, ctx[w].plane)
                 ELSE AfterCall(d, ctx[w].plane)
       IN  /\ heap' = KernelScratch(heap, call)
           /\ ctx' = [ctx EXCEPT ![w] =
                        [@ EXCEPT !.called = TRUE, !.call = call,
                                  !.calls = Append(@, CallOf(call)),
                                  !.dst_frame = KernelWritten(@, call),
                                  !.plane = to.plane, !.pc = to.pc]]
    /\ UNCHANGED <<in, out, d, life, outVi, pool, nodeFreed, nreq, crashed>>

\* ------------------------------------------- release, frame props and return
\* mutant: a frame index is released once, however many handles the window
\* holds for it
FreeFramesOncePerIndex(frames) ==
    [k \in 1..Len(frames) |->
        IF \E j \in 1..(k - 1) : frames[j].idx = frames[k].idx THEN frames[k]
        ELSE [frames[k] EXCEPT !.freed = @ + 1]]

\* vsapi->freeFrame(frame) for every handle of the vector
FreeFrames(frames) == [k \in 1..Len(frames) |-> [frames[k] EXCEPT !.freed = @ + 1]]

\* mutant: BM3D_V_radius is given the width of the window
WithPropsOfWindow(c, frame) ==
    IF c.radius # 0
    THEN [frame EXCEPT !.has_props = TRUE, !.BM3D_V_radius = 2 * c.radius + 1,
                       !.BM3D_V_process = [i \in 1..3 |-> IF c.process[i - 1] THEN 1 ELSE 0]]
    ELSE frame

WithProps(c, frame) ==
    IF c.radius # 0
    THEN [frame EXCEPT !.has_props = TRUE, !.BM3D_V_radius = c.radius,
                       !.BM3D_V_process = [i \in 1..3 |-> IF c.process[i - 1] THEN 1 ELSE 0]]
    ELSE frame

Release(w) ==
    /\ Running
    /\ ctx[w].pc = "release"
    /\ ctx' = [ctx EXCEPT ![w] =
                 [@ EXCEPT !.src_frames = FreeFrames(@), !.ref_frames = FreeFrames(@),
                           !.dst_frame = WithProps(d, @), !.returned = TRUE,
                           !.plane = 0, !.found = FALSE, !.newbuf = NULLPTR,
                           !.buffer = NULLPTR, !.called = FALSE, !.call = NoCall,
                           !.pc = "done"]]
    /\ UNCHANGED <<in, out, d, life, outVi, pool, heap, nodeFreed, nreq, crashed>>

\* ------------------------------------------------------------------ BM3DFree
\* vs_aligned_free(p.second) for every entry of d->buffer (a null pointer is
\* accepted and frees nothing)
FreedBlocks(h, m) ==
    [b \in DOMAIN h |->
        [h[b] EXCEPT !.freed = @ + Cardinality({t \in DOMAIN m : m[t] = b})]]

BM3DFree ==
    /\ Running
    /\ \A w \in Workers : ctx[w].pc \in {"idle", "done"}
    /\ heap' = FreedBlocks(heap, pool)
    /\ nodeFreed' = [node |-> nodeFreed.node + 1,
                     ref_node |-> nodeFreed.ref_node + (IF d.has_ref THEN 1 ELSE 0)]
    /\ pool' = <<>>
    /\ life' = "freed"
    /\ UNCHANGED <<in, out, d, outVi, ctx, nreq, crashed>>

\* the steps of a host that issues at most limit frame requests
NextUpTo(limit) ==
    \/ \E trap \in BOOLEAN : BM3DInit(trap)
    \/ \E w \in Workers, n \in 0..(MaxFrames - 1) : AnnounceUpTo(w, n, limit)
    \/ \E w \in Workers, reason \in ActivationReasons : OtherActivation(w, reason)
    \/ \E w \in Workers : Fetch(w)
    \/ \E w \in Workers, seen \in BOOLEAN : PoolCount(w, seen)
    \/ \E w \in Workers : PoolEmplaceBegin(w)
    \/ \E w \in Workers : PoolEmplaceEnd(w)
    \/ \E w \in Workers, miss \in BOOLEAN : PoolLookup(w, miss)
    \/ \E w \in Workers : Memset(w)
    \/ \E w \in Workers, outcome \in KernelOutcomes : Kernel(w, outcome)
    \/ \E w \in Workers : Release(w)
    \/ BM3DFree

Next == NextUpTo(MaxRequests)

Spec == Init /\ [][Next]_vars

\* ------------------------------------- per-plane spatial filtering, one frame
\* The filter built without a reference on a clip of one frame, radius = 0 and
\* chroma = false, under a host that issues one request more.
InitSpatial ==
    /\ Init
    /\ d.radius = 0 /\ ~d.chroma /\ ~d.has_ref /\ d.vi.numFrames = 1

NextSpatial == NextUpTo(MaxRequests + 1)

SpecSpatial == InitSpatial /\ [][NextSpatial]_vars

\* ------------------------------------------------- the calls of BM3DCreate
\* The host calls BM3D with a clip, possibly a reference, and the VSMap in.
Double(units, residue) == [units |-> units, residue |-> residue]
Int64(v) == IF v >= 0 THEN [hi |-> 0, lo |-> v] ELSE [hi |-> -1, lo |-> v + INT_MAX + 1]

VideoInfo(format, width, height, numFrames) ==
    [format |-> format, width |-> width, height |-> height, numFrames |-> numFrames]

\* 3.0, 0.0, 3e-7, -1.0, and a negative double below the range of float
Sigma3 == Double(3 * UnitsPerOne, 0)
Sigma0 == Double(0, 0)
SigmaTiny == Double(30, 0)
SigmaMinus1 == Double(-UnitsPerOne, 0)
SigmaMinusUnderflow == Double(0, -1)

\* the values each argument is drawn from
ArgChoices ==
    [clip |-> { VideoInfo(f, 16, 4, 2) :
                    f \in {pfYUV444PS, pfYUV420PS, pfGrayS, pfYUV420P8, pfYUV444PH, NullFormat} },
     ref |-> { <<>>, <<VideoInfo(pfYUV444PS, 16, 4, 2)>>, <<VideoInfo(pfYUV420PS, 16, 4, 2)>>,
               <<VideoInfo(pfYUV444PS, 16, 8, 2)>>, <<VideoInfo(pfYUV444PS, 32, 4, 2)>>,
               <<VideoInfo(pfYUV444PS, 16, 4, 1)>>, <<VideoInfo(pfYUV420PS, 32, 4, 1)>>,
               <<VideoInfo(NullFormat, 16, 4, 2)>> },
     sigma |-> { <<>>, <<Sigma3>>, <<Sigma3, Sigma3>>, <<Sigma3, Sigma3, Sigma3>>,
                 <<Sigma0>>, <<Sigma3, Sigma0>>, <<SigmaTiny>>,
                 <<SigmaTiny, SigmaTiny, SigmaTiny>>, <<SigmaMinus1>>,
                 <<Sigma3, Sigma3, SigmaMinus1>>, <<SigmaMinusUnderflow>> },
     block_step |-> { <<>>, <<Int64(8), Int64(8), Int64(8)>>, <<Int64(4)>>,
                      <<Int64(4), Int64(4), Int64(4)>>, <<Int64(8), Int64(1)>>,
                      <<Int64(0)>>, <<Int64(9)>>, <<Int64(4), Int64(-1)>>,
                      <<[hi |-> 2, lo |-> 4]>> },
     bm_range |-> { <<>>, <<Int64(9), Int64(9), Int64(9)>>, <<Int64(7)>>,
                    <<Int64(7), Int64(7), Int64(7)>>, <<Int64(0)>>,
                    <<[hi |-> 3, lo |-> 0]>>, <<Int64(9), [hi |-> -3, lo |-> 1]>> },
     radius |-> { <<>>, <<Int64(0)>>, <<Int64(1)>>, <<Int64(2)>>, <<Int64(-1)>>,
                  <<Int64(134217728)>>, <<Int64(1073741824)>>, <<Int64(INT_MAX)>>,
                  <<[hi |-> 1, lo |-> 0]>> },
     ps_num |-> { <<>>, <<Int64(2)>>, <<Int64(3)>>, <<Int64(0)>> },
     ps_range |-> { <<>>, <<Int64(4)>>, <<Int64(5)>>, <<Int64(-4)>> },
     chroma |-> { <<>>, <<Int64(0)>>, <<Int64(1)>> }]

ArgNames == DOMAIN ArgChoices

\* a call with every optional argument left out
PlainArgs ==
    [clip |-> VideoInfo(pfYUV444PS, 16, 4, 2), ref |-> <<>>, sigma |-> <<>>,
     block_step |-> <<>>, bm_range |-> <<>>, radius |-> <<>>, ps_num |-> <<>>,
     ps_range |-> <<>>, chroma |-> <<>>]

\* the calls that differ from the plain one in at most two arguments
CreateArgs ==
    UNION { { [k \in ArgNames |-> IF k = f THEN x ELSE IF k = g THEN y ELSE PlainArgs[k]] :
                x \in ArgChoices[f], y \in ArgChoices[g] } :
            f \in ArgNames, g \in ArgNames }

NoData ==
    [radius |-> 0, chroma |-> FALSE, has_ref |-> FALSE, process |-> <<>>,
     vi |-> VideoInfo(NullFormat, 0, 0, 0), sigma |-> <<>>, block_step |-> <<>>,
     bm_range |-> <<>>, ps_num |-> <<>>, ps_range |-> <<>>]

InitCreate ==
    /\ in \in CreateArgs
    /\ out = [error |-> <<>>, filters |-> 0]
    /\ d = NoData
    /\ life = "called"
    /\ outVi = NoVideoInfo
    /\ pool = <<>>
    /\ heap = <<>>
    /\ ctx = [w \in Workers |-> IdleCtx]
    /\ nodeFreed = [node |-> 0, ref_node |-> 0]
    /\ nreq = 0
    /\ crashed = FALSE

NextCreate ==
    \/ \E deref \in DerefOutcomes : BM3DCreate(deref)
    \/ \E trap \in BOOLEAN : BM3DInit(trap)

SpecCreate == InitCreate /\ [][NextCreate]_vars

\* ======================================================================
\* Properties
\* ======================================================================

\* the worker is in, or has finished, a compute phase
Computing(w) == ctx[w].pc \notin {"idle", "announced"}

SeqRange(q) == { q[k] : k \in 1..Len(q) }

\* clamp(v, 0, numFrames - 1), written out
ClampedIndex(v) ==
    IF v < 0 THEN 0 ELSE IF v > d.vi.numFrames - 1 THEN d.vi.numFrames - 1 ELSE v

\* C1: in the compute phase the source window holds exactly 2R+1 handles, the
\* entry at position k (k = 0..2R) is the frame at clamp(n + k - R, 0,
\* numFrames-1), the entry at position R is frame n, and the reference window
\* has the same length and indices when a reference node is configured and is
\* empty when none is.
C1_WindowIsClamped ==
    \A w \in Workers : Computing(w) =>
        LET cx == ctx[w] IN
        /\ Len(cx.src_frames) = 2 * d.radius + 1
        /\ \A k \in 0..(2 * d.radius) :
               cx.src_frames[k + 1].idx = ClampedIndex(cx.n + k - d.radius)
        /\ cx.src_frames[d.radius + 1].idx = cx.n
        /\ IF d.has_ref
           THEN /\ Len(cx.ref_frames) = Len(cx.src_frames)
                /\ \A k \in 1..Len(cx.src_frames) :
                       cx.ref_frames[k].idx = cx.src_frames[k].idx
           ELSE cx.ref_frames = <<>>

\* a window at the start of the clip whose offsets collapse at both ends, with
\* a reference window beside it
C1_Witness ==
    \E w \in Workers :
        /\ Computing(w) /\ d.radius = 2 /\ d.has_ref /\ d.vi.numFrames = 2
        /\ ctx[w].n = 0
        /\ Indices(ctx[w].ref_frames) = <<0, 0, 0, 1, 1>>

\* C2: the set of indices announced with requestFrameFilter equals the set of
\* indices fetched with getFrameFilter, for the clip node and for the reference
\* node, and no index is announced twice on a node.
C2_AnnouncedIsFetched ==
    \A w \in Workers : Computing(w) =>
        LET cx == ctx[w] IN
        /\ SeqRange(cx.requested) = SeqRange(Indices(cx.src_frames))
        /\ SeqRange(cx.requested_ref) = SeqRange(Indices(cx.ref_frames))
        /\ Cardinality(SeqRange(cx.requested)) = Len(cx.requested)
        /\ Cardinality(SeqRange(cx.requested_ref)) = Len(cx.requested_ref)

\* a window that fetches one index several times and announces it once
C2_Witness ==
    \E w \in Workers :
        /\ Computing(w) /\ d.has_ref /\ d.radius = 1 /\ ctx[w].n = 0
        /\ Indices(ctx[w].src_frames) = <<0, 0, 1>>
        /\ ctx[w].requested = <<0, 1>>
        /\ ctx[w].requested_ref = <<0, 1>>

\* C3: the height declared in BM3DInit and the height of every destination
\* frame allocated agree; it is the input height for radius = 0 and
\* 2*(2*radius+1)*height for radius > 0; width and format are the input's.
ExpectedHeight ==
    IF d.radius = 0 THEN d.vi.height ELSE 2 * (2 * d.radius + 1) * d.vi.height

C3_HeightsAgree ==
    /\ outVi.set =>
        /\ outVi.height = ExpectedHeight
        /\ outVi.width = d.vi.width
        /\ outVi.format = d.vi.format.id
    /\ \A w \in Workers : ctx[w].dst_frame.allocated =>
        /\ ctx[w].dst_frame.height = outVi.height
        /\ ctx[w].dst_frame.height = ExpectedHeight
        /\ ctx[w].dst_frame.width = d.vi.width
        /\ ctx[w].dst_frame.format = d.vi.format.id

\* a stacked destination frame has been allocated
C3_Witness ==
    \E w \in Workers :
        /\ ctx[w].dst_frame.allocated /\ d.radius = 2
        /\ ctx[w].dst_frame.height = 10 * d.vi.height

\* C4: the registration step of one worker (count, emplace, operator[]) never
\* overlaps an emplace of another worker: no worker enters or performs a map
\* operation while an emplace is in progress on another thread.
MapStep(w) ==
    /\ ctx[w].pc \in {"count", "emplace", "lookup"}
    /\ ctx'[w].pc # ctx[w].pc

C4_RegistrationExclusive ==
    [][\A w \in Workers : MapStep(w) => Emplacing(w) = {}]_vars

\* C5: before teardown the pool entry of a worker is never replaced or
\* removed, so the worker keeps the buffer it once received, and no buffer is
\* the scratch buffer of two workers.
C5_EntriesStable ==
    [][ life' = "running" =>
          /\ \A t \in DOMAIN pool :
                 pool[t] # NULLPTR => (t \in DOMAIN pool' /\ pool'[t] = pool[t])
          /\ \A t, u \in DOMAIN pool' :
                 (t # u /\ pool'[t] # NULLPTR) => pool'[t] # pool'[u] ]_vars

\* C6: at every kernel invocation with radius = 0 the invoking worker's
\* scratch buffer is zero over the stride*height*2*planeGroupSize floats the
\* kernel uses.
KernelScratchFloats(call) ==
    call.stride * call.height * 2 * (IF call.chroma THEN 3 ELSE 1)

C6_ScratchZeroAtCall ==
    \A w \in Workers : (ctx[w].pc = "call" /\ d.radius = 0) =>
        LET call == KernelCall(d, ctx[w]) IN
        /\ call.buffer # NULLPTR
        /\ call.buffer \in DOMAIN heap
        /\ heap[call.buffer].zeroed >= KernelScratchFloats(call)

\* the second or third call of a frame, on a buffer the first call has used,
\* while another worker is between its own calls
C6_Witness ==
    \E w, v \in Workers :
        /\ w # v /\ d.radius = 0 /\ ~d.chroma
        /\ ctx[w].pc = "call" /\ ctx[w].called /\ ctx[w].plane = 2
        /\ ctx[v].called /\ ctx[v].pc \in {"count", "lookup", "memset"}

\* C7: at every kernel invocation with radius > 0 every row of each
\* destination plane handed to the call, all 2*(2*radius+1)*height of them, is
\* zero and has not been written since the frame was allocated.
DstPlaneRows(frame, p) == FrameHeight(d.vi.format, frame.height, p)
DstPlaneFloats(frame, p) ==
    (FrameStride(d.vi.format, frame.width, p) \div 4) * DstPlaneRows(frame, p)

C7_DstZeroAtCall ==
    \A w \in Workers : (ctx[w].pc = "call" /\ d.radius > 0) =>
        \A p \in KernelCall(d, ctx[w]).dstps :
            /\ DstPlaneRows(ctx[w].dst_frame, p)
                   = 2 * (2 * d.radius + 1) * FrameHeight(d.vi.format, d.vi.height, p)
            /\ ctx[w].dst_frame.planes[p].zeroed = DstPlaneFloats(ctx[w].dst_frame, p)
            /\ ~ctx[w].dst_frame.planes[p].written

\* the call for a later plane of a subsampled clip, after an earlier plane of
\* the same frame has been filtered
C7_Witness ==
    \E w \in Workers :
        /\ ctx[w].pc = "call" /\ d.radius > 0 /\ ctx[w].called
        /\ d.vi.format.id = pfYUV420PS.id /\ ctx[w].plane = 2

\* C8: every window frame handle fetched in a compute phase has been released
\* when the compute phase ends, also when it ends by a kernel failure.
AllFreedOnce(frames) == \A k \in 1..Len(frames) : frames[k].freed = 1

C8_FramesReleasedOnExit ==
    \A w \in Workers : ctx[w].pc \in {"done", "thrown"} =>
        /\ AllFreedOnce(ctx[w].src_frames)
        /\ AllFreedOnce(ctx[w].ref_frames)

\* C9: no scratch buffer is freed before teardown; at teardown every buffer
\* that was allocated is freed exactly once, and the clip node and the
\* reference node are released exactly once.
C9_FreedOnceAtTeardown ==
    /\ life # "freed" =>
        /\ \A b \in DOMAIN heap : heap[b].freed = 0
        /\ nodeFreed.node = 0 /\ nodeFreed.ref_node = 0
    /\ life = "freed" =>
        /\ \A b \in DOMAIN heap : heap[b].freed = 1
        /\ nodeFreed.node = 1
        /\ nodeFreed.ref_node = (IF d.has_ref THEN 1 ELSE 0)

\* C10: every kernel invocation uses the variant temporal = (radius > 0),
\* chroma = config.chroma, final = (reference configured); the scratch
\* argument is the buffer the pool handed this worker when radius = 0 and null
\* when radius > 0, in which case the pool stays empty; the reference pointer
\* is non-null exactly when a reference node is configured.
C10_VariantSelected ==
    /\ \A w \in Workers : ctx[w].called =>
        LET call == ctx[w].call IN
        /\ call.temporal = (d.radius > 0)
        /\ call.chroma = d.chroma
        /\ call.final = d.has_ref
        /\ call.ref_null = ~d.has_ref
        /\ (d.radius > 0) = (call.buffer = NULLPTR)
        /\ (d.radius = 0 /\ ctx[w].pc \in {"count", "release", "thrown"}) =>
               (call.buffer = ctx[w].buffer /\ call.buffer \in DOMAIN heap)
    /\ d.radius > 0 => (pool = <<>> /\ heap = <<>>)

\* a reference-guided spatial joint-chroma call has been made
C10_Witness ==
    \E w \in Workers :
        /\ ctx[w].called /\ d.radius = 0 /\ d.chroma /\ d.has_ref
        /\ ctx[w].call.buffer # NULLPTR /\ ~ctx[w].call.temporal /\ ctx[w].call.final

\* the planes of the format the configuration filters, and the frame a
\* worker has returned
FormatPlanes == 0..(d.vi.format.numPlanes - 1)
ProcessedPlanes == { p \in FormatPlanes : d.process[p] }
Returned(w) == ctx[w].pc = "done" /\ ctx[w].returned

\* C11: in per-plane mode a compute phase makes exactly one kernel call for
\* each plane of the format with process[p] = true, in increasing plane order,
\* each with that plane's own sigma, block_step, bm_range, ps_num, ps_range,
\* width, height and stride, and none for a plane with process[p] = false; in
\* joint-chroma mode it makes exactly one call, with the three sigmas and the
\* block_step, bm_range, ps_num and ps_range of plane 0.
OwnParameters(call) ==
    LET p == call.plane IN
    /\ call.dstps = {p}
    /\ call.sigma = <<d.sigma[p]>>
    /\ call.block_step = d.block_step[p]
    /\ call.bm_range = d.bm_range[p]
    /\ call.ps_num = d.ps_num[p]
    /\ call.ps_range = d.ps_range[p]
    /\ call.width = FrameWidth(d.vi.format, d.vi.width, p)
    /\ call.height = FrameHeight(d.vi.format, d.vi.height, p)
    /\ call.stride * 4 = FrameStride(d.vi.format, d.vi.width, p)

JointParameters(call) ==
    /\ call.dstps = Planes
    /\ call.sigma = <<d.sigma[0], d.sigma[1], d.sigma[2]>>
    /\ call.block_step = d.block_step[0]
    /\ call.bm_range = d.bm_range[0]
    /\ call.ps_num = d.ps_num[0]
    /\ call.ps_range = d.ps_range[0]

C11_OneCallPerProcessedPlane ==
    \A w \in Workers :
        LET calls == ctx[w].calls IN
        IF d.chroma
        THEN /\ Len(calls) <= 1
             /\ \A k \in 1..Len(calls) : JointParameters(calls[k])
             /\ Returned(w) => Len(calls) = 1
        ELSE /\ \A k \in 1..Len(calls) :
                    /\ calls[k].plane \in ProcessedPlanes
                    /\ OwnParameters(calls[k])
                    /\ \A j \in 1..(k - 1) : calls[j].plane < calls[k].plane
             /\ Returned(w) => { calls[k].plane : k \in 1..Len(calls) } = ProcessedPlanes

\* a frame of a subsampled clip returned with the first and the last plane
\* filtered and the middle one skipped
C11_Witness ==
    \E w \in Workers :
        /\ Returned(w) /\ ~d.chroma /\ d.vi.format.id = pfYUV420PS.id
        /\ d.process = [p \in Planes |-> p # 1]
        /\ Len(ctx[w].calls) = 2
        /\ ctx[w].calls[2].plane = 2
        /\ ctx[w].calls[2].block_step # ctx[w].calls[1].block_step

\* C12: for radius = 0, with chroma or without, every plane with process[i] =
\* false is a passthrough: the destination plane is the source frame's plane
\* and no kernel call is handed that destination plane to write to.
C12_UnprocessedPassthrough ==
    \A w \in Workers : (d.radius = 0 /\ ctx[w].dst_frame.allocated) =>
        \A p \in FormatPlanes : ~d.process[p] =>
            /\ ctx[w].dst_frame.planes[p].from_src
            /\ ~ctx[w].dst_frame.planes[p].written
            /\ \A k \in 1..Len(ctx[w].calls) : p \notin ctx[w].calls[k].dstps

\* C13: a frame returned with radius > 0 carries BM3D_V_radius = radius and
\* BM3D_V_process = the three process flags as 0/1; a frame returned with
\* radius = 0 carries neither.
C13_PropsOfTemporalOnly ==
    \A w \in Workers : Returned(w) =>
        LET frame == ctx[w].dst_frame IN
        IF d.radius > 0
        THEN /\ frame.has_props
             /\ frame.BM3D_V_radius = d.radius
             /\ Len(frame.BM3D_V_process) = 3
             /\ \A i \in Planes :
                    frame.BM3D_V_process[i + 1] = (IF d.process[i] THEN 1 ELSE 0)
        ELSE /\ ~frame.has_props
             /\ frame.BM3D_V_process = <<>>

\* a stacked frame returned with mixed process flags
C13_Witness ==
    \E w \in Workers :
        /\ Returned(w) /\ d.radius = 2
        /\ ctx[w].dst_frame.BM3D_V_process = <<1, 0, 1>>
        /\ ctx[w].dst_frame.BM3D_V_radius = 2

\* C17: in a compute phase that runs to completion every handle obtained from
\* getFrameFilter, the repeated ones of a clip boundary included, is released
\* exactly once, and none is released before the last kernel call of the
\* phase has returned.
NoneFreed(frames) == \A k \in 1..Len(frames) : frames[k].freed = 0

C17_ReleasedOnceAfterCalls ==
    \A w \in Workers :
        /\ (Computing(w) /\ ctx[w].pc # "done") =>
               NoneFreed(ctx[w].src_frames) /\ NoneFreed(ctx[w].ref_frames)
        /\ Returned(w) =>
               /\ Len(ctx[w].src_frames) = 2 * d.radius + 1
               /\ AllFreedOnce(ctx[w].src_frames)
               /\ AllFreedOnce(ctx[w].ref_frames)
               /\ Len(ctx[w].calls) = (IF d.chroma THEN 1 ELSE Cardinality(ProcessedPlanes))

\* a window at the start of the clip, holding frame 0 twice on both nodes,
\* released after the calls of a frame
C17_Witness ==
    \E w \in Workers :
        /\ Returned(w) /\ d.radius = 1 /\ d.has_ref /\ ctx[w].n = 0
        /\ Indices(ctx[w].src_frames) = <<0, 0, 1>>
        /\ Len(ctx[w].calls) > 0
        /\ \A k \in 1..3 : ctx[w].src_frames[k].freed = 1 /\ ctx[w].ref_frames[k].freed = 1

\* C18: the arInitial activation only issues requests: it fetches nothing,
\* allocates no destination frame, leaves pool and heap alone and returns no
\* frame; a destination frame is allocated only at the start of an
\* arAllFramesReady activation and returned only at its end; an activation
\* with another reason changes nothing.
InitialStep(w) == ctx[w].pc \in {"idle", "done"} /\ ctx'[w].pc = "announced"

C18_PhasesSeparate ==
    [][\A w \in Workers :
          /\ InitialStep(w) =>
                /\ ctx'[w].requested = Requested(d, ctx'[w].n)
                /\ ctx'[w].src_frames = <<>> /\ ctx'[w].ref_frames = <<>>
                /\ ~ctx'[w].dst_frame.allocated
                /\ ~ctx'[w].returned /\ ctx'[w].calls = <<>>
                /\ pool' = pool /\ heap' = heap
          /\ (~ctx[w].dst_frame.allocated /\ ctx'[w].dst_frame.allocated) =>
                ctx[w].pc = "announced"
          /\ (ctx[w].src_frames = <<>> /\ ctx'[w].src_frames # <<>>) =>
                ctx[w].pc = "announced"
          /\ (~ctx[w].returned /\ ctx'[w].returned) =>
                (ctx[w].pc = "release" /\ ctx'[w].dst_frame.allocated)
          /\ ctx[w].pc = "announced" =>
                (ctx'[w].pc = "announced" \/ ctx'[w].dst_frame.allocated) ]_vars

\* one worker has returned a frame while the other has announced its window
\* and fetched nothing yet
C18_Witness ==
    \E w, v \in Workers :
        /\ Returned(w) /\ ctx[w].dst_frame.allocated
        /\ ctx[v].pc = "announced" /\ ctx[v].requested # <<>>
        /\ ctx[v].src_frames = <<>> /\ ~ctx[v].dst_frame.allocated

\* C19: in per-plane spatial mode the floats zero-filled and handed to the
\* kernel for a plane (stride * height * 2 of that plane) never exceed the
\* floats the worker's buffer was allocated with.
C19_ScratchLargeEnough ==
    \A w \in Workers :
        (d.radius = 0 /\ ~d.chroma /\ ctx[w].pc = "call") =>
            /\ ctx[w].buffer \in DOMAIN heap
            /\ ScratchFloats(d, ctx[w].plane) <= heap[ctx[w].buffer].size
            /\ heap[ctx[w].buffer].zeroed <= heap[ctx[w].buffer].size

\* ---- what the arguments of a call are, read off the arguments themselves
Float32(vi) ==
    vi.format # NullFormat /\ vi.format.sampleType = stFloat /\ vi.format.bitsPerSample = 32

RefDiffersInFormat(a) == a.ref[1].format # a.clip.format
RefDiffersInSize(a) == a.ref[1].width # a.clip.width \/ a.ref[1].height # a.clip.height
RefDiffersInLength(a) == a.ref[1].numFrames # a.clip.numFrames

\* the elements of a per-plane argument that are read: the first three
Given(values) == { values[i] : i \in 1..Min(Len(values), 3) }

NegativeDouble(x) == x.units < 0 \/ (x.units = 0 /\ x.residue < 0)
PositiveInt64(x) == x.hi > 0 \/ (x.hi = 0 /\ x.lo > 0)
NegativeInt64(x) == x.hi < 0

InvalidArgs(a) ==
    \/ ~Float32(a.clip)
    \/ a.ref # <<>> /\ (RefDiffersInFormat(a) \/ RefDiffersInSize(a) \/ RefDiffersInLength(a))
    \/ \E x \in Given(a.sigma) : NegativeDouble(x)
    \/ \E x \in Given(a.block_step) : ~(x.hi = 0 /\ x.lo >= 1 /\ x.lo <= 8)
    \/ \E x \in Given(a.bm_range) \cup Given(a.ps_num) \cup Given(a.ps_range) : ~PositiveInt64(x)
    \/ a.radius # <<>> /\ NegativeInt64(a.radius[1])
    \/ a.chroma # <<>> /\ a.chroma[1] # Int64(0) /\ a.clip.format # pfYUV444PS

\* BM3DCreate has returned, or has taken a fault, and BM3DInit has not run
AfterCreate == life \in {"created", "failed"}

\* C14: for every invalid call BM3DCreate sets exactly one error, does not
\* call createFilter and releases every node it acquired (the clip, and the
\* reference when one was supplied and read) exactly once; for every valid
\* call it sets no error, calls createFilter once and releases no node.
C14_CreateAllOrNothing ==
    AfterCreate =>
        IF InvalidArgs(in)
        THEN /\ Len(out.error) = 1
             /\ out.filters = 0
             /\ nodeFreed.node = 1
             /\ nodeFreed.ref_node = (IF in.ref # <<>> /\ Float32(in.clip) THEN 1 ELSE 0)
        ELSE /\ out.error = <<>>
             /\ out.filters = 1
             /\ nodeFreed = [node |-> 0, ref_node |-> 0]

\* C15: with a reference supplied BM3DCreate fails on the reference iff it
\* differs from the clip in format, in width or height, or in frame count,
\* and the message names the first of these that differs.
RefMessages ==
    {"BM3D: \"ref\" must be of the same format as \"clip\"",
     "BM3D: \"ref\" must be of the same dimensions as \"clip\"",
     "BM3D: \"ref\" must be of the same number of frames as \"clip\""}

C15_RefMismatchReported ==
    (AfterCreate /\ in.ref # <<>> /\ Float32(in.clip)) =>
        /\ ~crashed
        /\ IF RefDiffersInFormat(in)
           THEN out.error = <<"BM3D: \"ref\" must be of the same format as \"clip\"">>
           ELSE IF RefDiffersInSize(in)
           THEN out.error = <<"BM3D: \"ref\" must be of the same dimensions as \"clip\"">>
           ELSE IF RefDiffersInLength(in)
           THEN out.error = <<"BM3D: \"ref\" must be of the same number of frames as \"clip\"">>
           ELSE \A k \in 1..Len(out.error) : out.error[k] \notin RefMessages

\* C16: a per-plane argument given with fewer than three values configures
\* the filter that the same argument with its last value repeated (none
\* given: the default three times) configures: the same stored sigma,
\* process, block_step, bm_range, ps_num and ps_range.
Padded(values, default) ==
    IF values = <<>> THEN <<default, default, default>>
    ELSE [i \in 1..3 |-> values[Min(i, Len(values))]]

PaddedArgs(a) ==
    [a EXCEPT !.sigma = Padded(@, Sigma3), !.block_step = Padded(@, Int64(8)),
              !.bm_range = Padded(@, Int64(9)), !.ps_num = Padded(@, Int64(2)),
              !.ps_range = Padded(@, Int64(4))]

C16_ReplicatesLast ==
    (AfterCreate /\ DerefAllowed(in, "reads")) =>
        LET padded == CreateOutcome(PaddedArgs(in), "reads") IN
        IF life = "created" THEN padded.kind = "created" /\ padded.d = d
        ELSE padded.kind = "error"

\* C20: for every call BM3DCreate accepts, 2*radius+1 and
\* height*2*(2*radius+1) do not leave the range of int: the declared height
\* is positive and is the mathematical value 2*(2*radius+1)*height.
C20_HeightDoesNotWrap ==
    life = "running" =>
        /\ ~crashed
        /\ outVi.set
        /\ outVi.height > 0
        /\ d.radius > 0 =>
              /\ d.radius <= (INT_MAX - 1) \div 2
              /\ 2 * d.radius + 1 <= INT_MAX \div 2
              /\ 2 * (2 * d.radius + 1) <= INT_MAX \div d.vi.height
              /\ outVi.height = 2 * (2 * d.radius + 1) * d.vi.height
====
